---- MODULE Spec2Model ----
(***************************************************************************)
(* A model of digihealth's sliding-window feature extraction:              *)
(*   - the window slider (Transforms.slide / Metrics.slide),               *)
(*   - the feature functions fed with its windows (zero_crossings,         *)
(*     mean_crossings, duration_of_labels_per_window),                     *)
(*   - the label analytics (speed, average_time_between_labels) and the    *)
(*     sampling-frequency estimator with the Metrics constructor.          *)
(* Floating-point values are kept exact: a quotient is a pair              *)
(* <<numerator, denominator>>, a non-finite value is named by its kind.    *)
(* A raised Python exception is the "err" field of a call's outcome.       *)
(***************************************************************************)
EXTENDS Integers, Sequences, FiniteSets

VARIABLES
    window_length,     \* self.window_length
    window_overlap,    \* self.window_overlap
    current_position,  \* self.current_position
    x,                 \* the backing series handed to slide: [ndim, rows]
    window,            \* the window the last slide call returned (its rows)
    op,                \* the last slide call: "new" (none yet), "peek", "update"
    stop,              \* the slice stop the last slide call used (line 213)
    calls,             \* number of slide(update=True) calls so far
    peeks,             \* consecutive slide(update=False) calls before the last update
    feat,              \* outcome of the last feature call on the window
    arg,               \* arguments of the analytics call under study
    out,               \* its outcome
    pc                 \* "slider", or "ready"/"done" for an analytics call

vars == <<window_length, window_overlap, current_position, x, window, op, stop,
          calls, peeks, feat, arg, out, pc>>

sliderVars == <<window_length, window_overlap, current_position, x, window, op,
                stop, calls, peeks, feat>>

----------------------------------------------------------------------------
(* Bounds of the model *)

MaxLen == 3        \* longest backing series
MaxWindow == 3     \* largest window_length
MaxOverlap == 3    \* largest window_overlap
MaxCalls == 3      \* slide(update=True) calls per behaviour
MaxPeeks == 2      \* consecutive slide(update=False) calls
MaxSignal == 4     \* longest window handed to zero_crossings on its own
MaxSamples == 3    \* longest label/timestamp sequence of an analytics call

----------------------------------------------------------------------------
(* Values *)

\* A sample is a number or NaN (a missing entry).
NaN == [nan |-> TRUE, v |-> 0]

Num(n) == [nan |-> FALSE, v |-> n]

Abs(n) == IF n < 0 THEN -n ELSE n

RECURSIVE SeqSum(_)
SeqSum(s) == IF s = <<>> THEN 0 ELSE Head(s) + SeqSum(Tail(s))

SeqsUpTo(S, n) == UNION {[1..k -> S] : k \in 0..n}

SeqsOfLen(S, n) == [1..n -> S]

\* One-channel rows hold a number of {-1, 0, 1} or NaN; two-channel rows hold
\* 1 or NaN in each channel.
Rows1 == {<<NaN>>, <<Num(-1)>>, <<Num(0)>>, <<Num(1)>>}

Rows2 == {<<a, b>> : a \in {NaN, Num(1)}, b \in {NaN, Num(2)}}

Series == {[ndim |-> 1, rows |-> r] : r \in SeqsUpTo(Rows1, MaxLen)}
          \cup {[ndim |-> 2, rows |-> r] : r \in SeqsUpTo(Rows2, MaxLen)}

----------------------------------------------------------------------------
(* The window slider *)

\* s[a:b] of Python/numpy for a sequence s of length n: a negative index
\* counts from the end, and both indices are clamped into 0..n.
SliceIndex(i, n) == IF i < 0 THEN (IF i + n < 0 THEN 0 ELSE i + n)
                    ELSE IF i > n THEN n ELSE i

\* Faulty variant of PySlice: the slice start is lost (x[:b]).
PySliceFromStart(s, a, b) == SubSeq(s, 1, SliceIndex(b, Len(s)))

PySlice(s, a, b) == SubSeq(s, SliceIndex(a, Len(s)) + 1, SliceIndex(b, Len(s)))

\* np.isnan(row).any(): a row is missing when any of its channels is NaN.
IsMissing(row) == \E c \in 1..Len(row) : row[c].nan

\* window[~np.isnan(window)] / window[~np.isnan(window).any(axis=1)]
DropMissing(w) == SelectSeq(w, LAMBDA row : ~IsMissing(row))

\* The window slide computes at cursor cp (lines 213-218).
SlideWindow(s, cp, wl) ==
    LET w == PySlice(s, cp - wl, cp)
    IN  IF Len(w) > 0 THEN DropMissing(w) ELSE w

\* Faulty variant of Advance: the overlap is assigned, not added.
AdvanceAssign(cp, wo, update) == IF update THEN wo ELSE cp

\* Faulty variant of Advance: the update flag is ignored.
AdvanceAlways(cp, wo, update) == cp + wo

\* if update: self.current_position += self.window_overlap
Advance(cp, wo, update) == IF update THEN cp + wo ELSE cp

NoFeat == [fn |-> "none", err |-> "none", val |-> <<>>]

SliderInit ==
    /\ window_length \in 0..MaxWindow
    /\ window_overlap \in 0..MaxOverlap
    /\ current_position = 0
    /\ x \in Series
    /\ window = <<>>
    /\ op = "new"
    /\ stop = 0
    /\ calls = 0
    /\ peeks = 0
    /\ feat = NoFeat

slide(update) ==
    /\ pc = "slider"
    /\ IF update THEN calls < MaxCalls
                 ELSE (IF op = "update" THEN 0 ELSE peeks) < MaxPeeks
    /\ window' = SlideWindow(x.rows, current_position, window_length)
    /\ stop' = current_position
    /\ current_position' = Advance(current_position, window_overlap, update)
    /\ op' = IF update THEN "update" ELSE "peek"
    /\ calls' = IF update THEN calls + 1 ELSE calls
    /\ peeks' = IF update THEN (IF op = "update" THEN 0 ELSE peeks)
                          ELSE (IF op = "update" THEN 0 ELSE peeks) + 1
    /\ feat' = NoFeat
    /\ UNCHANGED <<window_length, window_overlap, x, arg, out, pc>>

----------------------------------------------------------------------------
(* Feature functions applied to a window *)

Outcome(fn, err, val) == [fn |-> fn, err |-> err, val |-> val]

\* The numbers of a one-channel window, in order.
Values(w) == [i \in 1..Len(w) |-> w[i][1].v]

\* All numbers of a window, row after row (np.unique flattens its argument).
RECURSIVE Flatten(_)
Flatten(w) == IF w = <<>> THEN <<>>
              ELSE [i \in 1..Len(Head(w)) |-> Head(w)[i].v] \o Flatten(Tail(w))

SetMin(S) == CHOOSE m \in S : \A e \in S : m <= e

\* np.unique: the distinct values, ascending.
RECURSIVE SortedSeq(_)
SortedSeq(S) == IF S = {} THEN <<>>
                ELSE <<SetMin(S)>> \o SortedSeq(S \ {SetMin(S)})

Range(s) == {s[i] : i \in 1..Len(s)}

unique(s) == SortedSeq(Range(s))

Count(s, e) == Cardinality({i \in 1..Len(s) : s[i] = e})

\* sign = [1,0]
sign(direction) == IF direction = 0 THEN 1 ELSE 0

\* Faulty variant of InitialDirection: the test of x[0] is lost.
InitialDirectionZero(first) == 0

\* direction = 0; if x[0] >= 0: direction = 1
InitialDirection(first) == IF first >= 0 THEN 1 ELSE 0

\* for i in range(len(x)): ... from index i (1-based) on
RECURSIVE ZcLoop(_, _, _, _)
ZcLoop(v, i, direction, count_zc) ==
    IF i > Len(v) THEN count_zc
    ELSE IF (v[i] >= 0 /\ direction = 0) \/ (v[i] < 0 /\ direction = 1)
         THEN ZcLoop(v, i + 1, sign(direction), count_zc + 1)
         ELSE ZcLoop(v, i + 1, direction, count_zc)

\* zero_crossings on a one-dimensional array of numbers: x[0] of an empty
\* array raises IndexError.
zero_crossings(v) ==
    IF Len(v) = 0 THEN Outcome("zero_crossings", "IndexError", <<>>)
    ELSE Outcome("zero_crossings", "none",
                 <<ZcLoop(v, 1, InitialDirection(v[1]), 0)>>)

\* zero_crossings on a window as slide returns it: for two-channel rows
\* x[0] >= 0 is an array, whose truth value raises ValueError.
zero_crossings_window(ndim, w) ==
    IF Len(w) = 0 THEN Outcome("zero_crossings", "IndexError", <<>>)
    ELSE IF ndim > 1 THEN Outcome("zero_crossings", "ValueError", <<>>)
    ELSE zero_crossings(Values(w))

\* x - np.mean(x), scaled by the number of elements (which keeps every sign):
\* element * count - sum. The mean of an empty window is nan and x - nan is
\* still empty.
Centered(v) == [i \in 1..Len(v) |-> v[i] * Len(v) - SeqSum(v)]

mean_crossings_window(ndim, w) ==
    LET r == IF ndim > 1 THEN zero_crossings_window(ndim, w)
             ELSE zero_crossings_window(ndim,
                      [i \in 1..Len(w) |-> <<Num(Centered(Values(w))[i])>>])
    IN  Outcome("mean_crossings", r.err, r.val)

\* duration_of_labels_per_window: one row <<label, count * total, instances>>
\* per distinct label, the time share being count / instances * total.
\* timestamps[-1] of an empty array raises IndexError.
duration_of_labels_per_window(labels_w, ts) ==
    LET labels == Flatten(labels_w)
        unique_lab == unique(labels)
        number_of_instances == Len(labels_w)
    IN  IF Len(ts) = 0
        THEN Outcome("duration_of_labels_per_window", "IndexError", <<>>)
        ELSE LET total_time_in_window == ts[Len(ts)] - ts[1]
             IN  Outcome("duration_of_labels_per_window", "none",
                     [idx \in 1..Len(unique_lab) |->
                         <<unique_lab[idx],
                           Count(labels, unique_lab[idx]) * total_time_in_window,
                           number_of_instances>>])

\* Timestamps aligned with a window of labels.
WindowStamps == {0, 2}

call_zero_crossings ==
    /\ pc = "slider"
    /\ op # "new"
    /\ feat.fn = "none"
    /\ feat' = zero_crossings_window(x.ndim, window)
    /\ UNCHANGED <<window_length, window_overlap, current_position, x, window,
                   op, stop, calls, peeks, arg, out, pc>>

call_mean_crossings ==
    /\ pc = "slider"
    /\ op # "new"
    /\ feat.fn = "none"
    /\ feat' = mean_crossings_window(x.ndim, window)
    /\ UNCHANGED <<window_length, window_overlap, current_position, x, window,
                   op, stop, calls, peeks, arg, out, pc>>

call_duration_of_labels_per_window ==
    /\ pc = "slider"
    /\ op # "new"
    /\ feat.fn = "none"
    /\ \E ts \in SeqsOfLen(WindowStamps, Len(window)) :
          feat' = duration_of_labels_per_window(window, ts)
    /\ UNCHANGED <<window_length, window_overlap, current_position, x, window,
                   op, stop, calls, peeks, arg, out, pc>>

NoArg == [fn |-> "none"]

NoOut == [fn |-> "none", err |-> "none"]

Init ==
    /\ SliderInit
    /\ arg = NoArg
    /\ out = NoOut
    /\ pc = "slider"

Next ==
    \/ slide(TRUE)
    \/ slide(FALSE)
    \/ call_zero_crossings
    \/ call_mean_crossings
    \/ call_duration_of_labels_per_window

Spec == Init /\ [][Next]_vars

----------------------------------------------------------------------------
(* zero_crossings on its own: the window is drawn, then the function applied *)

Signals == SeqsUpTo({-1, 0, 1}, MaxSignal)

\* A slider nobody uses: the state of the slider part while a pure function
\* is under study.
IdleSlider ==
    /\ window_length = 0
    /\ window_overlap = 0
    /\ current_position = 0
    /\ x = [ndim |-> 1, rows |-> <<>>]
    /\ window = <<>>
    /\ op = "new"
    /\ stop = 0
    /\ calls = 0
    /\ peeks = 0
    /\ feat = NoFeat

InitZC ==
    /\ IdleSlider
    /\ arg \in {[fn |-> "zero_crossings", x |-> v] : v \in Signals}
    /\ out = NoOut
    /\ pc = "ready"

apply_zero_crossings ==
    /\ pc = "ready"
    /\ out' = zero_crossings(arg.x)
    /\ pc' = "done"
    /\ UNCHANGED <<sliderVars, arg>>

NextZC == apply_zero_crossings

SpecZC == InitZC /\ [][NextZC]_vars

----------------------------------------------------------------------------
(* The sampling-frequency estimator and the Metrics constructor *)

\* if (timestamps_[idx] - timestamps_[idx - 1]) < 100
OutlierThreshold == 100

Delta(ts, idx) == ts[idx] - ts[idx - 1]

\* The indices (1-based, from the second sample on) whose delta is summed.
Summed(ts) == {idx \in 2..Len(ts) : Delta(ts, idx) < OutlierThreshold}

RECURSIVE SumOver(_, _)
SumOver(ts, I) == IF I = {} THEN 0
                  ELSE Delta(ts, SetMin(I)) + SumOver(ts, I \ {SetMin(I)})

\* The sum of the deltas below the threshold.
DeltaSum(ts) == SumOver(ts, Summed(ts))

\* sampling_frequency starts as the Python int 0 and becomes a numpy number
\* with the first delta added. sampling_frequency / len(timestamps_) and
\* 1 / sampling_frequency raise ZeroDivisionError on Python numbers (no delta
\* added: 0 / 0, or 1 / 0.0) and give inf on numpy numbers. The frequency is
\* len / sum, kept as the pair <<num, den>>.
establish_sampling_frequency(ts) ==
    LET Freq(err, kind, num, den) ==
            [fn |-> "establish_sampling_frequency", err |-> err, kind |-> kind,
             num |-> num, den |-> den]
    IN  IF Summed(ts) = {} THEN Freq("ZeroDivisionError", "none", 0, 1)
        ELSE IF DeltaSum(ts) = 0 THEN Freq("none", "inf", 0, 1)
        ELSE Freq("none", "finite", Len(ts), DeltaSum(ts))

FloorDiv(a, b) == IF b > 0 THEN a \div b ELSE (-a) \div (-b)

CeilDiv(a, b) == -FloorDiv(-a, b)

\* Metrics.__init__: indexing = aggregation_duration / floor(frequency), rounded
\* up unless it is an even integer, then int(indexing). A zero floor makes
\* indexing inf or nan, which int() rejects.
Metrics_init(ts, aggregation_duration, overlap) ==
    LET sf == establish_sampling_frequency(ts)
        fl == FloorDiv(sf.num, sf.den)
        Made(wl) == [fn |-> "Metrics.__init__", err |-> "none", window_length |-> wl,
                     current_position |-> 0, window_overlap |-> overlap]
        Failed(e) == [fn |-> "Metrics.__init__", err |-> e, window_length |-> 0,
                      current_position |-> 0, window_overlap |-> 0]
    IN  IF sf.err # "none" THEN Failed(sf.err)
        ELSE IF sf.kind = "inf" THEN Made(0)
        ELSE IF fl = 0
             THEN (IF aggregation_duration = 0 THEN Failed("ValueError")
                                               ELSE Failed("OverflowError"))
        ELSE Made(CeilDiv(aggregation_duration, fl))


----------------------------------------------------------------------------
(* Label analytics *)

Labels == 0..2

Stamps == {0, 1, 2, 150}

\* Adjacency matrices over the labels, indexed [row][column] from 0.
Adjacencies ==
    { [i \in Labels |-> [j \in Labels |-> Abs(i - j)]],
      [i \in Labels |-> [j \in Labels |-> 3 * i + j]] }

\* int(np.where(unique_lab == lab)[0][0]): the 0-based place of lab among the
\* distinct labels of the window.
IndexIn(unique_lab, lab) ==
    (CHOOSE k \in 1..Len(unique_lab) : unique_lab[k] = lab) - 1

\* The adjacency weight speed adds for the sample at idx (1-based, idx >= 2).
SpeedWeight(labels, adjacency, idx) ==
    LET unique_lab == unique(labels)
    IN  adjacency[IndexIn(unique_lab, labels[idx - 1])]
                 [IndexIn(unique_lab, labels[idx])]

\* label_time_array[idx] = timestamps[idx - 1] - timestamps[idx]
SpeedTime(ts, idx) == ts[idx - 1] - ts[idx]

\* a/b + c/d
RatAdd(p, q) == <<p[1] * q[2] + q[1] * p[2], p[2] * q[2]>>

RECURSIVE RatSum(_)
RatSum(s) == IF s = <<>> THEN <<0, 1>> ELSE RatAdd(Head(s), RatSum(Tail(s)))

\* speed: distances = weight / time for each sample; entry 0 is 0/0 = nan, a
\* zero weight over zero time is nan, a positive weight over zero time is
\* inf; nanmean skips the nans only, and the mean of nothing is nan.
speed(labels, ts, adjacency) ==
    LET n == Len(labels)
        weights == [i \in 1..(IF n = 0 THEN 0 ELSE n - 1) |->
                        SpeedWeight(labels, adjacency, i + 1)]
        times == [i \in 1..Len(weights) |-> SpeedTime(ts, i + 1)]
        isNan(i) == weights[i] = 0 /\ times[i] = 0
        isInf(i) == weights[i] # 0 /\ times[i] = 0
        kept == SelectSeq([i \in 1..Len(weights) |-> i], LAMBDA i : ~isNan(i))
        total == RatSum([k \in 1..Len(kept) |-> <<weights[kept[k]], times[kept[k]]>>])
        Speed(kind, num, den) ==
            [fn |-> "speed", err |-> "none", weights |-> weights, kind |-> kind,
             num |-> num, den |-> den]
    IN  IF Len(kept) = 0 THEN Speed("nan", 0, 1)
        ELSE IF \E i \in 1..Len(weights) : isInf(i) THEN Speed("inf", 0, 1)
        ELSE Speed("finite", Abs(total[1]), Abs(total[2]) * Len(kept))

\* np.isclose(time, 1 / sampling_frequency) with 1 / sampling_frequency =
\* sum / count: |time - sum/count| <= atol + rtol * |sum/count|, atol = 1e-8
\* and rtol = 1e-5, multiplied through by count * 1e8.
AtolInv == 100000000

RtolScaled == 1000

IsCloseToInterval(time, sum, count) ==
    Abs(time * count - sum) <= (count + RtolScaled * Abs(sum)) \div AtolInv

\* np.diff
Diff(t) == [i \in 1..(IF Len(t) = 0 THEN 0 ELSE Len(t) - 1) |-> t[i + 1] - t[i]]

\* The timestamps of the samples labelled lab.
TimesOf(labels, ts, lab) ==
    LET at == SelectSeq([i \in 1..Len(labels) |-> i], LAMBDA i : labels[i] = lab)
    IN  [k \in 1..Len(at) |-> ts[at[k]]]

\* The mean of gaps as <<sum, count>>, and <<0, 1>> when there is none.
MeanOf(gaps) == IF Len(gaps) = 0 THEN <<0, 1>> ELSE <<SeqSum(gaps), Len(gaps)>>

\* lab_instance_outer = labels_[idx_outer]
OuterLabel(labels, idx_outer) == labels[idx_outer]

\* average_time_between_labels: one row per idx_outer in
\* range(number_of_labels).
average_time_between_labels(labels, ts, normalise) ==
    LET sf == establish_sampling_frequency(ts)
        number_of_labels == Len(unique(labels))
        Row(idx_outer) ==
            LET inter_label_times ==
                    Diff(TimesOf(labels, ts, OuterLabel(labels, idx_outer)))
                kept == IF normalise
                        THEN SelectSeq(inter_label_times,
                                 LAMBDA time :
                                     ~IsCloseToInterval(time, DeltaSum(ts), Len(ts)))
                        ELSE inter_label_times
            IN  MeanOf(kept)
    IN  IF sf.err # "none"
        THEN [fn |-> "average_time_between_labels", err |-> sf.err, val |-> <<>>]
        ELSE [fn |-> "average_time_between_labels", err |-> "none",
              val |-> [idx_outer \in 1..number_of_labels |-> Row(idx_outer)]]

InitAnalytics ==
    /\ IdleSlider
    /\ \E n \in 0..MaxSamples :
          arg \in [fn : {"analytics"}, labels : SeqsOfLen(Labels, n),
                   timestamps : SeqsOfLen(Stamps, n), adjacency : Adjacencies,
                   normalise : BOOLEAN]
    /\ out = NoOut
    /\ pc = "ready"

apply_speed ==
    /\ pc = "ready"
    /\ out' = speed(arg.labels, arg.timestamps, arg.adjacency)
    /\ pc' = "done"
    /\ UNCHANGED <<sliderVars, arg>>

apply_average_time_between_labels ==
    /\ pc = "ready"
    /\ out' = average_time_between_labels(arg.labels, arg.timestamps, arg.normalise)
    /\ pc' = "done"
    /\ UNCHANGED <<sliderVars, arg>>

apply_establish_sampling_frequency ==
    /\ pc = "ready"
    /\ out' = establish_sampling_frequency(arg.timestamps)
    /\ pc' = "done"
    /\ UNCHANGED <<sliderVars, arg>>

apply_Metrics_init ==
    /\ pc = "ready"
    /\ \E aggregation_duration \in {0, 1, 3}, overlap \in {1} :
          out' = Metrics_init(arg.timestamps, aggregation_duration, overlap)
    /\ pc' = "done"
    /\ UNCHANGED <<sliderVars, arg>>

NextAnalytics ==
    \/ apply_speed
    \/ apply_average_time_between_labels
    \/ apply_establish_sampling_frequency
    \/ apply_Metrics_init

SpecAnalytics == InitAnalytics /\ [][NextAnalytics]_vars


----------------------------------------------------------------------------
(* Claims about the window slider, checked under Spec *)

\* The cursor the last slide call computed its window at.
Called == op # "new"

\* C1: slide returns an empty window whenever current_position <
\* window_length, for a backing series of any length.
C1_EmptyBeforeFullWindow ==
    (Called /\ stop < window_length) => window = <<>>

\* C2: with 0 <= O <= L, every slide(update=True) call computes its window at
\* the cursor held before the call and then adds exactly O to
\* current_position: after k such calls current_position = k*O and the k-th
\* window ends at (k-1)*O.
C2_CursorAdvancesByOverlap ==
    window_overlap <= window_length =>
        /\ current_position = calls * window_overlap
        /\ op = "update" => stop = (calls - 1) * window_overlap
        /\ op = "peek" => stop = calls * window_overlap

C2_Witness ==
    /\ op = "update"
    /\ calls >= 3
    /\ window_overlap >= 1
    /\ window_overlap <= window_length
    /\ window # <<>>

\* C3: slide(update=False) leaves current_position, window_length and
\* window_overlap unchanged, and the call that follows a slide(update=False)
\* on the same series, with update False or True, returns the same window.
C3_PeekIsPure ==
    [][ /\ op' = "peek" =>
              /\ current_position' = current_position
              /\ window_length' = window_length
              /\ window_overlap' = window_overlap
        /\ op = "peek" => window' = window ]_vars

C3_Witness ==
    /\ op = "update"
    /\ peeks >= 2
    /\ window # <<>>
    /\ window_overlap >= 1

\* The rows of s at the 0-based positions P, in ascending order.
RowsAt(s, P) == [i \in 1..Cardinality(P) |-> s[SortedSeq(P)[i] + 1]]

\* C4: every returned window has length <= window_length and contains only
\* non-missing entries taken in order from series positions below the cursor
\* of the call and not below that cursor minus window_length, also once the
\* cursor is past the end of the series.
C4_WindowWithinCursor ==
    Called =>
        /\ Len(window) <= window_length
        /\ \A i \in 1..Len(window) : ~IsMissing(window[i])
        /\ \E P \in SUBSET {p \in 0..(Len(x.rows) - 1) :
                               stop - window_length <= p /\ p < stop} :
              window = RowsAt(x.rows, P)

C4_Witness ==
    /\ Called
    /\ stop > Len(x.rows)
    /\ window # <<>>
    /\ Len(window) < window_length
    /\ \E i \in 1..Len(x.rows) : IsMissing(x.rows[i])

\* C8: every window slide returns, the empty first window included, fed to
\* zero_crossings, mean_crossings or duration_of_labels_per_window yields a
\* value and no raised error.
C8_FeaturesNeverRaise ==
    (/\ x.ndim = 1
     /\ window_length >= 1
     /\ Len(x.rows) >= window_length
     /\ \A i \in 1..Len(x.rows) : ~IsMissing(x.rows[i])
     /\ feat.fn # "none") => feat.err = "none"

----------------------------------------------------------------------------
(* Claims about the pure functions *)

\* p and q, pairs <<numerator, denominator>>, are the same number.
RatEq(p, q) == p[1] * q[2] = q[1] * p[2]

Bijections(A, B) == {f \in [A -> B] : \A b \in B : \E a \in A : f[a] = b}

\* C9: for a non-empty window, zero_crossings is the number of indices i >= 1
\* whose sign class (x >= 0 against x < 0) differs from that of index i-1;
\* so [1,-1,1,-1] gives 3 and [1,1,1] gives 0, and a window that starts
\* negative is charged nothing for its first sample.
C9_ZeroCrossingsCountsSignChanges ==
    (pc = "done" /\ out.fn = "zero_crossings" /\ Len(arg.x) >= 1) =>
        /\ out.err = "none"
        /\ out.val = <<Cardinality({i \in 2..Len(arg.x) :
                           (arg.x[i] >= 0) # (arg.x[i - 1] >= 0)})>>
        /\ arg.x = <<1, -1, 1, -1>> => out.val = <<3>>
        /\ arg.x = <<1, 1, 1>> => out.val = <<0>>

C9_Witness ==
    /\ pc = "done"
    /\ out.fn = "zero_crossings"
    /\ arg.x = <<-1, 0, -1, -1>>
    /\ out.val = <<2>>

\* C5: with normalise=False, average_time_between_labels returns one value
\* per distinct label, each distinct label of the input represented exactly
\* once, the value of a label being the mean gap between the consecutive
\* timestamps at which it occurs and 0 when it occurs fewer than two times.
C5_OneAveragePerDistinctLabel ==
    (/\ pc = "done"
     /\ out.fn = "average_time_between_labels"
     /\ ~arg.normalise
     /\ \A idx \in 2..Len(arg.timestamps) : Delta(arg.timestamps, idx) >= 0
     /\ out.err = "none") =>
        \E f \in Bijections(1..Len(out.val), Range(arg.labels)) :
            \A j \in 1..Len(out.val) :
                RatEq(out.val[j],
                      MeanOf(Diff(TimesOf(arg.labels, arg.timestamps, f[j]))))

\* C6: the weight speed uses for a consecutive pair of samples is the
\* adjacency entry of the pair (previous label, current label), whatever
\* other labels the window holds.
C6_SpeedWeightIsAdjacencyOfLabels ==
    (pc = "done" /\ out.fn = "speed") =>
        \A i \in 1..Len(out.weights) :
            out.weights[i] = arg.adjacency[arg.labels[i]][arg.labels[i + 1]]

\* C7: establish_sampling_frequency raises nothing; when every successive
\* delta is >= 100 it returns a frequency (0 or infinite), and constructing a
\* Metrics slider from such timestamps does not fail inside the estimator.
C7_EstimatorNeverRaises ==
    (/\ pc = "done"
     /\ Len(arg.timestamps) >= 2
     /\ \A idx \in 2..Len(arg.timestamps) :
            Delta(arg.timestamps, idx) >= OutlierThreshold) =>
        /\ out.fn = "establish_sampling_frequency" => out.err = "none"
        /\ out.fn = "Metrics.__init__" => out.err # "ZeroDivisionError"

\* C10: with normalise=True, every gap of a label that equals the nominal
\* sampling interval is left out of its average: for timestamps uniformly
\* spaced by d and one label throughout, every gap is d and the average is 0.
C10_NominalGapsExcluded ==
    (/\ pc = "done"
     /\ out.fn = "average_time_between_labels"
     /\ arg.normalise
     /\ out.err = "none"
     /\ Len(arg.timestamps) >= 2
     /\ \A idx \in 2..Len(arg.timestamps) :
            Delta(arg.timestamps, idx) = Delta(arg.timestamps, 2)
     /\ \A i \in 1..Len(arg.labels) : arg.labels[i] = arg.labels[1]) =>
        /\ Len(out.val) = 1
        /\ RatEq(out.val[1], <<0, 1>>)

====
